---- MODULE Spec2Model ----
(***************************************************************************)
(* A model of howto (src/src/main.rs): one run of the command-line tool.   *)
(* Text is a sequence of one-character strings, so that substring search,  *)
(* slicing and trimming are computed character by character.               *)
(***************************************************************************)
EXTENDS Integers, Sequences, FiniteSets, TLC

VARIABLES
    apiKeyVar,   \* env::var(HOWTO_CLI_OPENAI_API_KEY) as the process sees it
    dataDirVar,  \* env::var(HOWTO_CLI_DATA_DIR) as the process sees it
    homeDir,     \* dirs::home_dir(): None or Some(path)
    files,       \* the file system: path -> None (unreadable) or Some(text)
    action,      \* HowToCli.action, the parsed positional argument
    pc,          \* the position of the run in cli / main
    apiKey,      \* the resolved credential: None or Some(text)
    dataDir,     \* the resolved data directory: None or Some(path)
    request,     \* the chat-completion request sent: None or Some(request)
    reply,       \* the popped choice's message.content: None, or Some(Option text)
    content,     \* reply.unwrap_or_default(): None or Some(text)
    command,     \* how generate_command ended: None, or Some(Ok/Err/Panic)
    result,      \* the Result that cli hands to main: None, or Some(Ok/Err)
    stdout,      \* the lines printed to standard output
    stderr,      \* the lines printed to standard error
    exitCode,    \* None while running, Some(code) once the process has ended
    events       \* the run's file reads, provider calls and prints, in order

vars == <<apiKeyVar, dataDirVar, homeDir, files, action, pc, apiKey, dataDir,
          request, reply, content, command, result, stdout, stderr, exitCode,
          events>>

----------------------------------------------------------------------------
(* Bounds of the model. *)

\* the longest model reply of a complete run, in pieces of ReplyPieces
RunReplyPieces == 2
\* the longest model reply handed to the extraction alone, in pieces
MaxReplyPieces == 5
\* the most candidate replies the provider returns
MaxChoices == 2

----------------------------------------------------------------------------
(* Option and Result values. *)

None == <<>>
Some(v) == <<v>>
IsSome(o) == o # None
Unwrap(o) == o[1]

Ok(v) == [kind |-> "Ok", val |-> v]
Err(m) == [kind |-> "Err", val |-> m]
Panic == [kind |-> "Panic", val |-> <<>>]

\* Result<String, VarError> of env::var
VarOk(v) == [tag |-> "Ok", val |-> v]
NotPresent == [tag |-> "NotPresent", val |-> <<>>]
NotUnicode == [tag |-> "NotUnicode", val |-> <<>>]

----------------------------------------------------------------------------
(* Text. *)

\* char::is_whitespace, on the characters of the model
WhiteSpace == {" ", "\n"}

RECURSIVE Concat(_)
\* the concatenation of a sequence of texts
Concat(parts) ==
    IF parts = <<>> THEN <<>> ELSE Head(parts) \o Concat(Tail(parts))

RECURSIVE TrimStart(_)
TrimStart(s) ==
    IF s = <<>> \/ Head(s) \notin WhiteSpace THEN s ELSE TrimStart(Tail(s))

RECURSIVE TrimEnd(_)
TrimEnd(s) ==
    IF s = <<>> \/ s[Len(s)] \notin WhiteSpace
    THEN s
    ELSE TrimEnd(SubSeq(s, 1, Len(s) - 1))

\* str::trim with no trimming at the end: a faulty variant of Trim
TrimStartOnly(s) == TrimStart(s)

\* str::trim
Trim(s) == TrimEnd(TrimStart(s))

RECURSIVE FindFrom(_, _, _)
\* the scan of str::find from offset i (0-based)
FindFrom(hay, needle, i) ==
    IF i + Len(needle) > Len(hay) THEN None
    ELSE IF SubSeq(hay, i + 1, i + Len(needle)) = needle THEN Some(i)
    ELSE FindFrom(hay, needle, i + 1)

RECURSIVE RFindFrom(_, _, _)
RFindFrom(hay, needle, i) ==
    IF i < 0 THEN None
    ELSE IF SubSeq(hay, i + 1, i + Len(needle)) = needle THEN Some(i)
    ELSE RFindFrom(hay, needle, i - 1)

\* str::rfind, the offset of the last occurrence: a faulty variant of Find
RFind(hay, needle) == RFindFrom(hay, needle, Len(hay) - Len(needle))

\* str::find: the offset (0-based) of the first occurrence of needle in hay
Find(hay, needle) == FindFrom(hay, needle, 0)

\* content[start..end]: a panic when start > end or end is past the text
Slice(s, start, end) ==
    IF start <= end /\ end <= Len(s) THEN Ok(SubSeq(s, start + 1, end)) ELSE Panic

OPEN_TAG == <<"<", "c", "o", "m", "m", "a", "n", "d", ">">>
CLOSE_TAG == <<"<", "/", "c", "o", "m", "m", "a", "n", "d", ">">>
NO_COMMAND_TAG ==
    <<"<", "n", "o", "_", "c", "o", "m", "m", "a", "n", "d", "/", ">">>

----------------------------------------------------------------------------
(* Constants of the program. *)

DATA_DIR_ENV_VAR == "HOWTO_CLI_DATA_DIR"
OPENAI_API_KEY_ENV_VAR == "HOWTO_CLI_OPENAI_API_KEY"
DEFAULT_DATA_DIR_NAME == ".howto-cli"
OPENAI_API_KEY_FILE == "credentials"
SYSTEM_MESSAGE == "SYSTEM_MESSAGE"
MODEL_ID == "gpt-4o-2024-08-06"
MAX_TOKENS == 1024
TEMPERATURE == 0

\* the messages of the errors, each a sequence of the pieces it is formatted from
NotUnicodeMsg(var) ==
    <<"The value of the ", var, " environment variable is not valid Unicode.">>
HomeDirMsg ==
    <<"Unable to determine home directory. Set the ", DATA_DIR_ENV_VAR,
      " environment variable to override.">>
ReadFileMsg == <<"Unable to read OpenAI API key from file">>
RequestFailedMsg == <<"Unable to generate command. OpenAI request failed.">>
NoResponseMsg == <<"Unable to generate command. No response from model.">>
NoCommandMsg == <<"No command could be generated for the action.">>
PanicMsg == <<"thread 'main' panicked">>

\* the exit code of a panicking process: 101 when unwinding, 134 when aborting
PanicExitCodes == {101, 134}

----------------------------------------------------------------------------
(* The inputs of a run. *)

\* the values of HOWTO_CLI_OPENAI_API_KEY
ApiKeyVarValues ==
    {NotPresent, NotUnicode, VarOk(<<"k">>), VarOk(<<" ", "k", " ">>)}

\* the values of HOWTO_CLI_DATA_DIR; a path is the sequence of its components
DataDirVarValues == {NotPresent, NotUnicode, VarOk(<<"d">>)}

HomeDirValues == {None, Some(<<"h">>)}

\* the files a run can try to read
CredentialPaths ==
    {<<"d", OPENAI_API_KEY_FILE>>,
     <<"h", DEFAULT_DATA_DIR_NAME, OPENAI_API_KEY_FILE>>}

\* None: the file is missing or unreadable
FileContents == {None, Some(<<" ", "a", "\n">>), Some(<<"b">>)}

ActionValues == {<<>>, <<" ", "l", "s", " ">>}

\* what model replies are put together from
ReplyPieces ==
    {OPEN_TAG, CLOSE_TAG, NO_COMMAND_TAG, <<" ">>, <<"\n">>, <<"c", "d">>, <<"<">>}

\* the texts of at most n pieces
Replies(n) ==
    {Concat(ps) : ps \in UNION {[1..k -> ReplyPieces] : k \in 0..n}}

\* message.content of a choice: absent, or a text
ReplyContents(n) == {None} \cup {Some(t) : t \in Replies(n)}

\* the content of the choices before the last one
EarlierContents == {None, Some(OPEN_TAG \o <<"p", "w", "d">> \o CLOSE_TAG)}

\* response.choices: at most MaxChoices choices, each its message.content
ChoiceLists ==
    UNION {{earlier \o <<last>> :
                earlier \in [1..(k - 1) -> EarlierContents],
                last \in ReplyContents(RunReplyPieces)} : k \in 1..MaxChoices}
    \cup {<<>>}

\* what the provider call comes back with: a failure, or the choices
ProviderOutcomes ==
    {[ok |-> FALSE, choices |-> <<>>]}
    \cup {[ok |-> TRUE, choices |-> cs] : cs \in ChoiceLists}

----------------------------------------------------------------------------
(* The pure steps of generate_command. *)

\* Option::unwrap_or_default on the content of the message
UnwrapOrDefault(o) == IF IsSome(o) THEN Unwrap(o) ELSE <<>>

ACTION_OPEN == <<"<", "a", "c", "t", "i", "o", "n", ">", "\n">>
ACTION_CLOSE == <<"\n", "<", "/", "a", "c", "t", "i", "o", "n", ">">>

\* the content of the user message
UserMessage(act) == ACTION_OPEN \o Trim(act) \o ACTION_CLOSE

\* the request generate_command builds, with the key of the client's config
BuildRequest(key, act) ==
    [api_key |-> key,
     model |-> MODEL_ID,
     max_tokens |-> MAX_TOKENS,
     temperature |-> TEMPERATURE,
     messages |-> <<[role |-> "system", content |-> <<SYSTEM_MESSAGE>>],
                    [role |-> "user", content |-> UserMessage(act)]>>]

\* a missing closing tag read as the end of the reply: a faulty variant of ExtractCommand
ExtractCommandToEnd(text) ==
    LET start_index ==
            IF IsSome(Find(text, OPEN_TAG))
            THEN Some(Unwrap(Find(text, OPEN_TAG)) + Len(OPEN_TAG))
            ELSE None
        end_index ==
            IF IsSome(Find(text, CLOSE_TAG))
            THEN Find(text, CLOSE_TAG)
            ELSE Some(Len(text))
    IN  IF IsSome(start_index) /\ IsSome(end_index)
        THEN LET slice == Slice(text, Unwrap(start_index), Unwrap(end_index))
             IN  IF slice.kind = "Ok" THEN Ok(Trim(slice.val)) ELSE Panic
        ELSE Err(NoCommandMsg)

\* the extraction of the command from the content of the reply
ExtractCommand(text) ==
    LET start_index ==
            IF IsSome(Find(text, OPEN_TAG))
            THEN Some(Unwrap(Find(text, OPEN_TAG)) + Len(OPEN_TAG))
            ELSE None
        end_index == Find(text, CLOSE_TAG)
    IN  IF IsSome(start_index) /\ IsSome(end_index)
        THEN LET slice == Slice(text, Unwrap(start_index), Unwrap(end_index))
             IN  IF slice.kind = "Ok" THEN Ok(Trim(slice.val)) ELSE Panic
        ELSE Err(NoCommandMsg)

----------------------------------------------------------------------------
(* The run. *)

\* the process after HowToCli::parse(), about to call cli
Init ==
    /\ apiKeyVar \in ApiKeyVarValues
    /\ dataDirVar \in DataDirVarValues
    /\ homeDir \in HomeDirValues
    /\ files \in [CredentialPaths -> FileContents]
    /\ action \in ActionValues
    /\ pc = "get_api_key"
    /\ apiKey = None
    /\ dataDir = None
    /\ request = None
    /\ reply = None
    /\ content = None
    /\ command = None
    /\ result = None
    /\ stdout = <<>>
    /\ stderr = <<>>
    /\ exitCode = None
    /\ events = <<>>

\* get_api_key trimming the value of the variable: a faulty variant of GetApiKey
GetApiKeyTrimmed ==
    /\ pc = "get_api_key"
    /\ \/ /\ apiKeyVar.tag = "Ok"
          /\ apiKey' = Some(Trim(apiKeyVar.val))
          /\ pc' = "generate_command"
          /\ UNCHANGED result
       \/ /\ apiKeyVar.tag = "NotPresent"
          /\ pc' = "get_data_dir"
          /\ UNCHANGED <<apiKey, result>>
       \/ /\ apiKeyVar.tag = "NotUnicode"
          /\ result' = Some(Err(NotUnicodeMsg(OPENAI_API_KEY_ENV_VAR)))
          /\ pc' = "main"
          /\ UNCHANGED apiKey
    /\ UNCHANGED <<apiKeyVar, dataDirVar, homeDir, files, action, dataDir,
                   request, reply, content, command, stdout, stderr, exitCode,
                   events>>

\* get_api_key going on to the file whenever env::var fails: a faulty variant of
\* GetApiKey
GetApiKeyFallThrough ==
    /\ pc = "get_api_key"
    /\ \/ /\ apiKeyVar.tag = "Ok"
          /\ apiKey' = Some(apiKeyVar.val)
          /\ pc' = "generate_command"
          /\ UNCHANGED result
       \/ /\ apiKeyVar.tag \in {"NotPresent", "NotUnicode"}
          /\ pc' = "get_data_dir"
          /\ UNCHANGED <<apiKey, result>>
    /\ UNCHANGED <<apiKeyVar, dataDirVar, homeDir, files, action, dataDir,
                   request, reply, content, command, stdout, stderr, exitCode,
                   events>>

\* get_api_key: the match on env::var(OPENAI_API_KEY_ENV_VAR)
GetApiKey ==
    /\ pc = "get_api_key"
    /\ \/ /\ apiKeyVar.tag = "Ok"
          /\ apiKey' = Some(apiKeyVar.val)
          /\ pc' = "generate_command"
          /\ UNCHANGED result
       \/ /\ apiKeyVar.tag = "NotPresent"
          /\ pc' = "get_data_dir"
          /\ UNCHANGED <<apiKey, result>>
       \/ /\ apiKeyVar.tag = "NotUnicode"
          /\ result' = Some(Err(NotUnicodeMsg(OPENAI_API_KEY_ENV_VAR)))
          /\ pc' = "main"
          /\ UNCHANGED apiKey
    /\ UNCHANGED <<apiKeyVar, dataDirVar, homeDir, files, action, dataDir,
                   request, reply, content, command, stdout, stderr, exitCode,
                   events>>

\* get_data_dir taking the home directory whenever there is one: a faulty variant of
\* GetDataDir
GetDataDirPreferHome ==
    /\ pc = "get_data_dir"
    /\ \/ /\ IsSome(homeDir)
          /\ dataDirVar.tag # "NotUnicode"
          /\ dataDir' = Some(Unwrap(homeDir) \o <<DEFAULT_DATA_DIR_NAME>>)
          /\ pc' = "read_credentials"
          /\ UNCHANGED result
       \/ /\ ~IsSome(homeDir)
          /\ dataDirVar.tag = "Ok"
          /\ dataDir' = Some(dataDirVar.val)
          /\ pc' = "read_credentials"
          /\ UNCHANGED result
       \/ /\ ~IsSome(homeDir)
          /\ dataDirVar.tag = "NotPresent"
          /\ result' = Some(Err(HomeDirMsg))
          /\ pc' = "main"
          /\ UNCHANGED dataDir
       \/ /\ dataDirVar.tag = "NotUnicode"
          /\ result' = Some(Err(NotUnicodeMsg(DATA_DIR_ENV_VAR)))
          /\ pc' = "main"
          /\ UNCHANGED dataDir
    /\ UNCHANGED <<apiKeyVar, dataDirVar, homeDir, files, action, apiKey,
                   request, reply, content, command, stdout, stderr, exitCode,
                   events>>

\* get_data_dir asking for the home directory before it looks at the
\* variable: a faulty variant of GetDataDir
GetDataDirNeedsHome ==
    /\ pc = "get_data_dir"
    /\ \/ /\ ~IsSome(homeDir)
          /\ result' = Some(Err(HomeDirMsg))
          /\ pc' = "main"
          /\ UNCHANGED dataDir
       \/ /\ IsSome(homeDir)
          /\ dataDirVar.tag = "Ok"
          /\ dataDir' = Some(dataDirVar.val)
          /\ pc' = "read_credentials"
          /\ UNCHANGED result
       \/ /\ IsSome(homeDir)
          /\ dataDirVar.tag = "NotPresent"
          /\ dataDir' = Some(Unwrap(homeDir) \o <<DEFAULT_DATA_DIR_NAME>>)
          /\ pc' = "read_credentials"
          /\ UNCHANGED result
       \/ /\ IsSome(homeDir)
          /\ dataDirVar.tag = "NotUnicode"
          /\ result' = Some(Err(NotUnicodeMsg(DATA_DIR_ENV_VAR)))
          /\ pc' = "main"
          /\ UNCHANGED dataDir
    /\ UNCHANGED <<apiKeyVar, dataDirVar, homeDir, files, action, apiKey,
                   request, reply, content, command, stdout, stderr, exitCode,
                   events>>

\* get_data_dir: the match on env::var(DATA_DIR_ENV_VAR)
GetDataDir ==
    /\ pc = "get_data_dir"
    /\ \/ /\ dataDirVar.tag = "Ok"
          /\ dataDir' = Some(dataDirVar.val)
          /\ pc' = "read_credentials"
          /\ UNCHANGED result
       \/ /\ dataDirVar.tag = "NotPresent"
          /\ IsSome(homeDir)
          /\ dataDir' = Some(Unwrap(homeDir) \o <<DEFAULT_DATA_DIR_NAME>>)
          /\ pc' = "read_credentials"
          /\ UNCHANGED result
       \/ /\ dataDirVar.tag = "NotPresent"
          /\ ~IsSome(homeDir)
          /\ result' = Some(Err(HomeDirMsg))
          /\ pc' = "main"
          /\ UNCHANGED dataDir
       \/ /\ dataDirVar.tag = "NotUnicode"
          /\ result' = Some(Err(NotUnicodeMsg(DATA_DIR_ENV_VAR)))
          /\ pc' = "main"
          /\ UNCHANGED dataDir
    /\ UNCHANGED <<apiKeyVar, dataDirVar, homeDir, files, action, apiKey,
                   request, reply, content, command, stdout, stderr, exitCode,
                   events>>

\* get_api_key going on with an empty key when the file cannot be read: a
\* faulty variant of ReadCredentials
ReadCredentialsOrDefault ==
    /\ pc = "read_credentials"
    /\ LET api_key_path == Unwrap(dataDir) \o <<OPENAI_API_KEY_FILE>>
       IN  /\ events' = Append(events, <<"read", api_key_path>>)
           /\ apiKey' = Some(Trim(UnwrapOrDefault(files[api_key_path])))
           /\ pc' = "generate_command"
    /\ UNCHANGED <<apiKeyVar, dataDirVar, homeDir, files, action, dataDir,
                   request, reply, content, command, result, stdout, stderr,
                   exitCode>>

\* get_api_key: read_to_string of the credentials file, then trim
ReadCredentials ==
    /\ pc = "read_credentials"
    /\ LET api_key_path == Unwrap(dataDir) \o <<OPENAI_API_KEY_FILE>>
       IN  /\ events' = Append(events, <<"read", api_key_path>>)
           /\ \/ /\ IsSome(files[api_key_path])
                 /\ apiKey' = Some(Trim(Unwrap(files[api_key_path])))
                 /\ pc' = "generate_command"
                 /\ UNCHANGED result
              \/ /\ ~IsSome(files[api_key_path])
                 /\ result' = Some(Err(ReadFileMsg))
                 /\ pc' = "main"
                 /\ UNCHANGED apiKey
    /\ UNCHANGED <<apiKeyVar, dataDirVar, homeDir, files, action, dataDir,
                   request, reply, content, command, stdout, stderr, exitCode>>

\* get_openai_client and generate_command up to the call of the provider
SendRequest ==
    /\ pc = "generate_command"
    /\ request' = Some(BuildRequest(Unwrap(apiKey), action))
    /\ events' = Append(events, <<"request">>)
    /\ pc' = "await"
    /\ UNCHANGED <<apiKeyVar, dataDirVar, homeDir, files, action, apiKey,
                   dataDir, reply, content, command, result, stdout, stderr,
                   exitCode>>

\* generate_command: the provider's answer, the last choice and its content
ReceiveResponse ==
    /\ pc = "await"
    /\ \E response \in ProviderOutcomes :
          \/ /\ ~response.ok
             /\ result' = Some(Err(RequestFailedMsg))
             /\ pc' = "main"
             /\ UNCHANGED <<reply, content>>
          \/ /\ response.ok
             /\ response.choices = <<>>
             /\ result' = Some(Err(NoResponseMsg))
             /\ pc' = "main"
             /\ UNCHANGED <<reply, content>>
          \/ /\ response.ok
             /\ response.choices # <<>>
             /\ reply' = Some(response.choices[Len(response.choices)])
             /\ content' = Some(UnwrapOrDefault(Unwrap(reply')))
             /\ pc' = "extract"
             /\ UNCHANGED result
    /\ UNCHANGED <<apiKeyVar, dataDirVar, homeDir, files, action, apiKey,
                   dataDir, request, command, stdout, stderr, exitCode, events>>

\* generate_command: the search for the tags and what it returns
Extract ==
    /\ pc = "extract"
    /\ command' = Some(ExtractCommand(Unwrap(content)))
    /\ \/ /\ Unwrap(command').kind = "Ok"
          /\ pc' = "print"
          /\ UNCHANGED <<result, stderr, exitCode, events>>
       \/ /\ Unwrap(command').kind = "Err"
          /\ result' = command'
          /\ pc' = "main"
          /\ UNCHANGED <<stderr, exitCode, events>>
       \/ /\ Unwrap(command').kind = "Panic"
          /\ stderr' = Append(stderr, PanicMsg)
          /\ events' = Append(events, <<"stderr">>)
          /\ \E code \in PanicExitCodes : exitCode' = Some(code)
          /\ pc' = "done"
          /\ UNCHANGED result
    /\ UNCHANGED <<apiKeyVar, dataDirVar, homeDir, files, action, apiKey,
                   dataDir, request, reply, content, stdout>>

\* cli: println of the command, then Ok(())
PrintCommand ==
    /\ pc = "print"
    /\ stdout' = Append(stdout, Unwrap(command).val)
    /\ events' = Append(events, <<"stdout">>)
    /\ result' = Some(Ok(<<>>))
    /\ pc' = "main"
    /\ UNCHANGED <<apiKeyVar, dataDirVar, homeDir, files, action, apiKey,
                   dataDir, request, reply, content, command, stderr, exitCode>>

\* main: the result of cli, reported and turned into the exit code
Main ==
    /\ pc = "main"
    /\ \/ /\ Unwrap(result).kind = "Err"
          /\ stderr' = Append(stderr, <<"Error: ">> \o Unwrap(result).val)
          /\ events' = Append(events, <<"stderr">>)
          /\ exitCode' = Some(1)
       \/ /\ Unwrap(result).kind = "Ok"
          /\ exitCode' = Some(0)
          /\ UNCHANGED <<stderr, events>>
    /\ pc' = "done"
    /\ UNCHANGED <<apiKeyVar, dataDirVar, homeDir, files, action, apiKey,
                   dataDir, request, reply, content, command, result, stdout>>

Next ==
    \/ GetApiKey
    \/ GetDataDir
    \/ ReadCredentials
    \/ SendRequest
    \/ ReceiveResponse
    \/ Extract
    \/ PrintCommand
    \/ Main

Spec == Init /\ [][Next]_vars

\* a run that has just received a reply, of at most MaxReplyPieces pieces
InitExtract ==
    /\ apiKeyVar = VarOk(<<"k">>)
    /\ dataDirVar = NotPresent
    /\ homeDir = Some(<<"h">>)
    /\ files = [p \in CredentialPaths |-> None]
    /\ action = <<" ", "l", "s", " ">>
    /\ pc = "extract"
    /\ apiKey = Some(<<"k">>)
    /\ dataDir = None
    /\ request = Some(BuildRequest(<<"k">>, action))
    /\ reply \in {Some(c) : c \in ReplyContents(MaxReplyPieces)}
    /\ content = Some(UnwrapOrDefault(Unwrap(reply)))
    /\ command = None
    /\ result = None
    /\ stdout = <<>>
    /\ stderr = <<>>
    /\ exitCode = None
    /\ events = <<<<"request">>>>

NextExtract ==
    \/ Extract
    \/ PrintCommand
    \/ Main

SpecExtract == InitExtract /\ [][NextExtract]_vars

----------------------------------------------------------------------------
(* What the claims speak of, stated without the operators of the model. *)

\* needle occurs in hay at offset i (0-based)
OccursAt(hay, needle, i) ==
    /\ i \in 0..(Len(hay) - Len(needle))
    /\ \A k \in 1..Len(needle) : hay[i + k] = needle[k]

Occurs(hay, needle) == \E i \in 0..Len(hay) : OccursAt(hay, needle, i)

\* the first occurrence of needle in hay is at offset i
FirstAt(hay, needle, i) ==
    /\ OccursAt(hay, needle, i)
    /\ \A j \in 0..(i - 1) : ~OccursAt(hay, needle, j)

NoOuterWhiteSpace(t) ==
    t = <<>> \/ (t[1] \notin WhiteSpace /\ t[Len(t)] \notin WhiteSpace)

\* t is s with its leading and trailing whitespace removed
IsTrimOf(t, s) ==
    /\ NoOuterWhiteSpace(t)
    /\ \E a, b \in 0..Len(s) :
          /\ a + b <= Len(s)
          /\ t = SubSeq(s, a + 1, Len(s) - b)
          /\ \A k \in 1..a : s[k] \in WhiteSpace
          /\ \A k \in (Len(s) - b + 1)..Len(s) : s[k] \in WhiteSpace

\* the extraction step of generate_command has acted
Extracted == IsSome(command)

\* the content the extraction works on
Text == Unwrap(content)

Offsets == 0..Len(Text)

\* both tags occur, the first closing tag before the end of the first opening tag
CloseBeforeOpen ==
    \E i, j \in Offsets :
        /\ FirstAt(Text, OPEN_TAG, i)
        /\ FirstAt(Text, CLOSE_TAG, j)
        /\ j < i + Len(OPEN_TAG)

NoCommandFailure == command = Some(Err(NoCommandMsg))

ReadEvents == {k \in 1..Len(events) : events[k][1] = "read"}
RequestEvents == {k \in 1..Len(events) : events[k][1] = "request"}
StdoutEvents == {k \in 1..Len(events) : events[k][1] = "stdout"}

\* C1: a reply whose first closing tag precedes its first opening tag ends in
\* the no-command failure: no crash, no content returned
C1_CloseBeforeOpenFails ==
    (Extracted /\ CloseBeforeOpen) =>
        /\ NoCommandFailure
        /\ stdout = <<>>
        /\ (pc = "done" => exitCode = Some(1))

\* C2: a reply that lacks the opening tag or lacks the closing tag (a reply
\* with no content is the empty text) ends in the no-command failure and
\* no command is returned or printed
C2_MissingTagFails ==
    /\ (IsSome(reply) /\ Unwrap(reply) = None) => content = Some(<<>>)
    /\ (Extracted /\ (~Occurs(Text, OPEN_TAG) \/ ~Occurs(Text, CLOSE_TAG))) =>
          /\ NoCommandFailure
          /\ stdout = <<>>
          /\ pc \in {"main", "done"}
          /\ result = Some(Err(NoCommandMsg))

\* a reply with an opening tag and no closing tag has failed with no command
C2_Witness ==
    /\ Extracted
    /\ Occurs(Text, OPEN_TAG)
    /\ ~Occurs(Text, CLOSE_TAG)
    /\ NoCommandFailure
    /\ pc = "done"
    /\ exitCode = Some(1)

\* C3: when the first closing tag starts at or after the end of the first
\* opening tag, the command is the text strictly between the two, trimmed
C3_CommandIsTrimmedBetweenFirstTags ==
    Extracted =>
        \A i \in Offsets :
            FirstAt(Text, OPEN_TAG, i) =>
                \A j \in (i + Len(OPEN_TAG))..Len(Text) :
                    FirstAt(Text, CLOSE_TAG, j) =>
                        /\ Unwrap(command).kind = "Ok"
                        /\ IsTrimOf(Unwrap(command).val,
                                    SubSeq(Text, i + Len(OPEN_TAG) + 1, j))

\* a reply with a second opening tag, whose command lost whitespace in trimming
C3_Witness ==
    /\ Extracted
    /\ Unwrap(command).kind = "Ok"
    /\ \E i, j, i2 \in Offsets :
          /\ FirstAt(Text, OPEN_TAG, i)
          /\ FirstAt(Text, CLOSE_TAG, j)
          /\ OccursAt(Text, OPEN_TAG, i2)
          /\ i2 > j
          /\ Unwrap(command).val # <<>>
          /\ Len(Unwrap(command).val) < j - (i + Len(OPEN_TAG))

\* C4: a run ends, and ends in one of two ways: one command on standard
\* output and exit code 0, or one "Error: " line on standard error and code 1
C4_OneOutcome ==
    /\ pc = "done" \/ ENABLED Next
    /\ pc = "done" =>
          \/ /\ exitCode = Some(0)
             /\ Len(stdout) = 1
             /\ stderr = <<>>
          \/ /\ exitCode = Some(1)
             /\ stdout = <<>>
             /\ Len(stderr) = 1
             /\ stderr[1][1] = "Error: "

\* C5: the API-key variable, set to valid text, is the credential as it
\* stands, and neither the data directory nor any file is looked at
C5_EnvKeyWins ==
    (apiKeyVar.tag = "Ok" /\ pc # "get_api_key") =>
        /\ apiKey = Some(apiKeyVar.val)
        /\ dataDir = None
        /\ ReadEvents = {}
        /\ IsSome(request) => Unwrap(request).api_key = apiKeyVar.val

\* a key with spaces around it was sent as it stands, though both files exist
C5_Witness ==
    /\ apiKeyVar = VarOk(<<" ", "k", " ">>)
    /\ dataDirVar.tag = "Ok"
    /\ \A p \in CredentialPaths : IsSome(files[p])
    /\ IsSome(request)
    /\ Unwrap(request).api_key = <<" ", "k", " ">>
    /\ pc = "done"

\* C6: an API-key variable that is not Unicode fails at once with an error
\* naming it: no data directory, no file read, no provider call
C6_NotUnicodeKeyFails ==
    (apiKeyVar = NotUnicode /\ pc # "get_api_key") =>
        /\ pc \in {"main", "done"}
        /\ IsSome(result)
        /\ Unwrap(result).kind = "Err"
        /\ \E k \in 1..Len(Unwrap(result).val) :
              Unwrap(result).val[k] = OPENAI_API_KEY_ENV_VAR
        /\ apiKey = None
        /\ dataDir = None
        /\ events \in {<<>>, <<<<"stderr">>>>}
        /\ request = None
        /\ (pc = "done" => exitCode = Some(1))

\* the run failed although the override directory holds a readable key
C6_Witness ==
    /\ apiKeyVar = NotUnicode
    /\ dataDirVar = VarOk(<<"d">>)
    /\ IsSome(files[<<"d", OPENAI_API_KEY_FILE>>])
    /\ pc = "done"
    /\ exitCode = Some(1)

\* the data directory the environment designates: None when there is none
DesignatedDataDir ==
    IF dataDirVar.tag = "Ok" THEN Some(dataDirVar.val)
    ELSE IF dataDirVar.tag = "NotPresent" /\ homeDir # None
         THEN Some(Unwrap(homeDir) \o <<DEFAULT_DATA_DIR_NAME>>)
         ELSE None

CredentialsResolved == pc \notin {"get_api_key", "get_data_dir", "read_credentials"}

\* C7: with the API-key variable unset, the credential is the trimmed content
\* of credentials in the override directory when that is set, and in
\* <home>/.howto-cli otherwise
C7_KeyFromFile ==
    (apiKeyVar = NotPresent /\ CredentialsResolved) =>
        IF DesignatedDataDir # None
           /\ IsSome(files[Unwrap(DesignatedDataDir) \o <<OPENAI_API_KEY_FILE>>])
        THEN /\ IsSome(apiKey)
             /\ IsTrimOf(Unwrap(apiKey),
                         Unwrap(files[Unwrap(DesignatedDataDir)
                                          \o <<OPENAI_API_KEY_FILE>>]))
             /\ \A k \in ReadEvents :
                   events[k][2] = Unwrap(DesignatedDataDir) \o <<OPENAI_API_KEY_FILE>>
        ELSE apiKey = None

\* the key came from the override directory, trimmed, though the home
\* directory holds another key
C7_Witness ==
    /\ apiKeyVar = NotPresent
    /\ dataDirVar = VarOk(<<"d">>)
    /\ homeDir = Some(<<"h">>)
    /\ files[<<"d", OPENAI_API_KEY_FILE>>] = Some(<<" ", "a", "\n">>)
    /\ files[<<"h", DEFAULT_DATA_DIR_NAME, OPENAI_API_KEY_FILE>>] = Some(<<"b">>)
    /\ apiKey = Some(<<"a">>)
    /\ IsSome(request)
    /\ pc = "done"

HomeDirFailure == IsSome(result) /\ Unwrap(result) = Err(HomeDirMsg)

\* C8: with both variables unset and no home directory, resolution fails with
\* an error naming the data-dir variable, no file is read and the exit code
\* is 1; with either variable set a missing home directory fails nothing
C8_NoHomeDir ==
    /\ (/\ apiKeyVar = NotPresent
        /\ dataDirVar = NotPresent
        /\ homeDir = None
        /\ pc \notin {"get_api_key", "get_data_dir"}) =>
            /\ IsSome(result)
            /\ Unwrap(result).kind = "Err"
            /\ \E k \in 1..Len(Unwrap(result).val) :
                  Unwrap(result).val[k] = DATA_DIR_ENV_VAR
            /\ ReadEvents = {}
            /\ RequestEvents = {}
            /\ (pc = "done" => exitCode = Some(1) /\ Len(stderr) = 1)
    /\ HomeDirFailure =>
          apiKeyVar = NotPresent /\ dataDirVar = NotPresent /\ homeDir = None

\* the run ended with code 1 for want of a home directory
C8_Witness ==
    /\ apiKeyVar = NotPresent
    /\ dataDirVar = NotPresent
    /\ homeDir = None
    /\ HomeDirFailure
    /\ pc = "done"
    /\ exitCode = Some(1)

\* C9: at most one file read, then at most one provider call, then the print;
\* the call only once the credential is resolved, the print only once the
\* call has come back and the extraction has succeeded
C9_Order ==
    /\ Cardinality(ReadEvents) <= 1
    /\ Cardinality(RequestEvents) <= 1
    /\ \A r \in ReadEvents, q \in RequestEvents : r < q
    /\ \A q \in ReadEvents \cup RequestEvents, o \in StdoutEvents : q < o
    /\ RequestEvents # {} =>
          \/ apiKeyVar.tag = "Ok"
          \/ \E r \in ReadEvents : IsSome(files[events[r][2]])
    /\ (stdout # <<>> \/ StdoutEvents # {}) =>
          /\ RequestEvents # {}
          /\ IsSome(reply)
          /\ IsSome(command)
          /\ Unwrap(command).kind = "Ok"
          /\ stdout = <<Unwrap(command).val>>

\* a run that read the file, called the provider and printed, in that order
C9_Witness ==
    /\ Len(events) = 3
    /\ events[1][1] = "read"
    /\ events[2][1] = "request"
    /\ events[3][1] = "stdout"
    /\ pc = "done"

\* C10 as claimed: a command that generate_command returns, and that the run
\* prints, is a non-empty string
C10_CommandNonEmpty ==
    /\ (Extracted /\ Unwrap(command).kind = "Ok") => Unwrap(command).val # <<>>
    /\ \A k \in 1..Len(stdout) : stdout[k] # <<>>

\* C10 as amended: a command that generate_command returns neither starts nor
\* ends with whitespace, and is empty exactly when nothing but whitespace
\* lies between the first opening tag and the first closing tag
C10_CommandTrimmedMaybeEmpty ==
    (Extracted /\ Unwrap(command).kind = "Ok") =>
        /\ NoOuterWhiteSpace(Unwrap(command).val)
        /\ \E i, j \in Offsets :
              /\ FirstAt(Text, OPEN_TAG, i)
              /\ FirstAt(Text, CLOSE_TAG, j)
              /\ j >= i + Len(OPEN_TAG)
              /\ (Unwrap(command).val = <<>>) <=>
                     (\A k \in (i + Len(OPEN_TAG) + 1)..j : Text[k] \in WhiteSpace)
        /\ \A k \in 1..Len(stdout) : stdout[k] = Unwrap(command).val

\* a block of whitespace alone was printed as an empty command, with code 0
C10_Witness ==
    /\ Extracted
    /\ Unwrap(command) = Ok(<<>>)
    /\ \E i, j \in Offsets :
          /\ FirstAt(Text, OPEN_TAG, i)
          /\ FirstAt(Text, CLOSE_TAG, j)
          /\ j > i + Len(OPEN_TAG)
    /\ stdout = <<<<>>>>
    /\ pc = "done"
    /\ exitCode = Some(0)

====
